---- MODULE Spec2Model ----
(***************************************************************************)
(* Matching and normalization engine of the price-comparison pipeline     *)
(* (product_matcher.py), modelled at the level of characters: a text is   *)
(* a sequence of one-character strings, so that lower-casing, the regular *)
(* expressions, str.split and difflib's SequenceMatcher are computed as   *)
(* the Python code computes them.                                          *)
(***************************************************************************)
EXTENDS Integers, Sequences, FiniteSets, TLC

(***************************************************************************)
(* Characters and Python's string primitives                               *)
(***************************************************************************)
UPPERCASE == <<"A","B","C","D","E","F","G","H","I","J","K","L","M",
               "N","O","P","Q","R","S","T","U","V","W","X","Y","Z">>
LOWERCASE == <<"a","b","c","d","e","f","g","h","i","j","k","l","m",
               "n","o","p","q","r","s","t","u","v","w","x","y","z">>
DIGITS == {"0","1","2","3","4","5","6","7","8","9"}
LOWERS == {LOWERCASE[i] : i \in 1..Len(LOWERCASE)}
UPPERS == {UPPERCASE[i] : i \in 1..Len(UPPERCASE)}

\* Python's None for an Optional[str]; no text contains this element.
None == <<"<None>">>
\* SQL NULL of an integer foreign key; ids start at 1.
NULL == 0

IsDigit(c) == c \in DIGITS
IsLower(c) == c \in LOWERS
\* \s of the re module, over the characters the model's texts use
IsSpace(c) == c = " "
\* \w of the re module
IsWord(c) == c \in DIGITS \cup LOWERS \cup UPPERS \cup {"_"}

\* truthiness of an Optional[str]: None and "" are false
Truthy(s) == s # None /\ s # <<>>

LowerChar(c) ==
  IF c \in UPPERS THEN LOWERCASE[CHOOSE i \in 1..Len(UPPERCASE) : UPPERCASE[i] = c]
  ELSE c

\* str.lower()
lower(text) == [i \in 1..Len(text) |-> LowerChar(text[i])]

RECURSIVE LStrip(_)
LStrip(text) ==
  IF text # <<>> /\ IsSpace(Head(text)) THEN LStrip(Tail(text)) ELSE text

RECURSIVE RStrip(_)
RStrip(text) ==
  IF text # <<>> /\ IsSpace(text[Len(text)])
  THEN RStrip(SubSeq(text, 1, Len(text) - 1)) ELSE text

\* str.strip()
strip(text) == RStrip(LStrip(text))

\* text[i:] starts with w  (str.startswith(w, i), 1-based i)
StartsAt(text, i, w) ==
  /\ i + Len(w) - 1 <= Len(text)
  /\ \A k \in 1..Len(w) : text[i + k - 1] = w[k]

\* w in text (substring test of Python's `in` on str)
Contains(text, w) == \E i \in 1..(Len(text) - Len(w) + 1) : StartsAt(text, i, w)

\* x in list
InList(x, list) == \E i \in 1..Len(list) : list[i] = x

\* end (last index) of the maximal run of digits starting at i; i-1 if none
RECURSIVE DigitsEnd(_, _)
DigitsEnd(text, i) ==
  IF i <= Len(text) /\ IsDigit(text[i]) THEN DigitsEnd(text, i + 1) ELSE i - 1

RECURSIVE SpacesEnd(_, _)
SpacesEnd(text, i) ==
  IF i <= Len(text) /\ IsSpace(text[i]) THEN SpacesEnd(text, i + 1) ELSE i - 1

RECURSIVE LowersEnd(_, _)
LowersEnd(text, i) ==
  IF i <= Len(text) /\ IsLower(text[i]) THEN LowersEnd(text, i + 1) ELSE i - 1

\* str.split(): the maximal runs of non-whitespace characters, in order
RECURSIVE SplitFrom(_, _)
SplitFrom(text, i) ==
  IF i > Len(text) THEN <<>>
  ELSE IF IsSpace(text[i]) THEN SplitFrom(text, i + 1)
  ELSE LET e == CHOOSE j \in i..Len(text) :
                  /\ \A k \in i..j : ~IsSpace(text[k])
                  /\ (j = Len(text) \/ IsSpace(text[j + 1]))
       IN <<SubSeq(text, i, e)>> \o SplitFrom(text, e + 1)

split(text) == SplitFrom(text, 1)

\* ' '.join(tokens)
RECURSIVE join(_)
join(tokens) ==
  IF tokens = <<>> THEN <<>>
  ELSE IF Len(tokens) = 1 THEN tokens[1]
  ELSE tokens[1] \o <<" ">> \o join(Tail(tokens))

\* [t for t in tokens if t not in words]
RECURSIVE Without(_, _)
Without(tokens, words) ==
  IF tokens = <<>> THEN <<>>
  ELSE IF InList(Head(tokens), words) THEN Without(Tail(tokens), words)
  ELSE <<Head(tokens)>> \o Without(Tail(tokens), words)

(***************************************************************************)
(* The vocabularies of ProductMatcher                                      *)
(***************************************************************************)
BRANDS ==
  << <<"a","p","p","l","e">>,
     <<"s","a","m","s","u","n","g">>,
     <<"x","i","a","o","m","i">>,
     <<"h","u","a","w","e","i">>,
     <<"o","p","p","o">>,
     <<"o","n","e","p","l","u","s">>,
     <<"g","o","o","g","l","e">>,
     <<"n","o","k","i","a">>,
     <<"s","o","n","y">>,
     <<"l","g">>,
     <<"l","e","n","o","v","o">>,
     <<"a","s","u","s">>,
     <<"a","c","e","r">>,
     <<"h","p">>,
     <<"d","e","l","l">>,
     <<"m","s","i">>,
     <<"r","a","z","e","r">>,
     <<"m","i","c","r","o","s","o","f","t">>,
     <<"l","o","g","i","t","e","c","h">>,
     <<"c","o","r","s","a","i","r">>,
     <<"s","t","e","e","l","s","e","r","i","e","s">>,
     <<"h","y","p","e","r","x">>,
     <<"i","n","t","e","l">>,
     <<"a","m","d">>,
     <<"n","v","i","d","i","a">>,
     <<"b","o","s","c","h">>,
     <<"p","h","i","l","i","p","s">>,
     <<"p","a","n","a","s","o","n","i","c">>,
     <<"c","a","n","o","n">>,
     <<"n","i","k","o","n">>,
     <<"g","o","p","r","o">> >>

STOP_WORDS ==
  << <<"s","m","a","r","t","p","h","o","n","e">>,
     <<"t","a","b","l","e","t">>,
     <<"l","a","p","t","o","p">>,
     <<"n","o","t","e","b","o","o","k">>,
     <<"d","e","s","k","t","o","p">>,
     <<"c","o","m","p","u","t","e","r">>,
     <<"n","e","w">>,
     <<"o","r","i","g","i","n","a","l">>,
     <<"g","e","n","u","i","n","e">>,
     <<"o","f","f","i","c","i","a","l">>,
     <<"u","n","l","o","c","k","e","d">>,
     <<"s","e","a","l","e","d">>,
     <<"d","u","a","l">>,
     <<"s","i","m">>,
     <<"w","i","f","i">>,
     <<"w","i","-","f","i">>,
     <<"b","l","u","e","t","o","o","t","h">>,
     <<"i","n","c","h">>,
     <<"s","c","r","e","e","n">> >>

COLOR_WORDS ==
  << <<"b","l","a","c","k">>,
     <<"w","h","i","t","e">>,
     <<"s","i","l","v","e","r">>,
     <<"g","o","l","d">>,
     <<"b","l","u","e">>,
     <<"r","e","d">>,
     <<"g","r","e","e","n">>,
     <<"y","e","l","l","o","w">>,
     <<"p","i","n","k">>,
     <<"p","u","r","p","l","e">>,
     <<"g","r","a","y">>,
     <<"g","r","e","y">>,
     <<"o","r","a","n","g","e">>,
     <<"t","i","t","a","n","i","u","m">>,
     <<"b","r","o","n","z","e">>,
     <<"m","i","d","n","i","g","h","t">>,
     <<"s","t","a","r","l","i","g","h","t">>,
     <<"s","i","e","r","r","a">>,
     <<"g","r","a","p","h","i","t","e">>,
     <<"r","o","s","e">>,
     <<"s","p","a","c","e">>,
     <<"n","a","t","u","r","a","l">> >>

colors ==
  << <<"b","l","a","c","k">>,
     <<"w","h","i","t","e">>,
     <<"s","i","l","v","e","r">>,
     <<"g","o","l","d">>,
     <<"b","l","u","e">>,
     <<"r","e","d">>,
     <<"g","r","e","e","n">>,
     <<"y","e","l","l","o","w">>,
     <<"p","i","n","k">>,
     <<"p","u","r","p","l","e">>,
     <<"g","r","a","y">>,
     <<"g","r","e","y">>,
     <<"o","r","a","n","g","e">>,
     <<"t","i","t","a","n","i","u","m">>,
     <<"b","r","o","n","z","e">>,
     <<"m","i","d","n","i","g","h","t">>,
     <<"s","t","a","r","l","i","g","h","t">>,
     <<"s","i","e","r","r","a">>,
     <<"g","r","a","p","h","i","t","e">>,
     <<"r","o","s","e">> >>


\* the unit words of UNIT_PATTERNS and their replacements
UNIT == [ gb |-> <<"g","b">>, tb |-> <<"t","b">>, mb |-> <<"m","b">>,
          inch |-> <<"i","n","c","h">> ]

(***************************************************************************)
(* Normalizer                                                              *)
(***************************************************************************)
\* re.sub(r'(\d+)\s*<unit>', r'\1<unit>', text): leftmost non-overlapping
\* matches; \d+ and \s* are greedy and giving characters back never helps.
RECURSIVE SubUnit(_, _, _)
SubUnit(text, unit, i) ==
  IF i > Len(text) THEN <<>>
  ELSE LET d == DigitsEnd(text, i)
           s == SpacesEnd(text, d + 1)
       IN IF d >= i /\ StartsAt(text, s + 1, unit)
          THEN SubSeq(text, i, d) \o unit \o SubUnit(text, unit, s + 1 + Len(unit))
          ELSE <<text[i]>> \o SubUnit(text, unit, i + 1)

\* re.sub(r'(\d+)<quote>', r'\1inch', text)
RECURSIVE SubInch(_, _, _)
SubInch(text, quote, i) ==
  IF i > Len(text) THEN <<>>
  ELSE LET d == DigitsEnd(text, i)
       IN IF d >= i /\ d + 1 <= Len(text) /\ text[d + 1] = quote
          THEN SubSeq(text, i, d) \o UNIT.inch \o SubInch(text, quote, d + 2)
          ELSE <<text[i]>> \o SubInch(text, quote, i + 1)

\* the UNIT_PATTERNS loop, in the order of the list
NormalizeUnits(text) ==
  LET t1 == SubUnit(text, UNIT.gb, 1)
      t2 == SubUnit(t1, UNIT.tb, 1)
      t3 == SubUnit(t2, UNIT.mb, 1)
      t4 == SubInch(t3, "\"", 1)
  IN SubInch(t4, "'", 1)

\* re.sub(r'[^a-z0-9\s]', ' ', text)
RemoveSpecial(text) ==
  [i \in 1..Len(text) |->
     IF IsLower(text[i]) \/ IsDigit(text[i]) \/ IsSpace(text[i]) THEN text[i] ELSE " "]

normalize_text(text) ==
  IF ~Truthy(text) THEN <<>>
  ELSE join(split(RemoveSpecial(NormalizeUnits(strip(lower(text))))))

IsUnit(text, i) ==
  StartsAt(text, i, UNIT.gb) \/ StartsAt(text, i, UNIT.tb) \/ StartsAt(text, i, UNIT.mb)

\* \b between positions i-1 and i of text
Boundary(text, i) ==
  LET before == i > 1 /\ i - 1 <= Len(text) /\ IsWord(text[i - 1])
      after == i >= 1 /\ i <= Len(text) /\ IsWord(text[i])
  IN before # after

\* end of the match of CAPACITY_PATTERN r'\b\d+(?:gb|tb|mb)\b' at i; 0 if none
CapacityPatternAt(text, i) ==
  LET d == DigitsEnd(text, i)
  IN IF d >= i /\ Boundary(text, i) /\ IsUnit(text, d + 1) /\ Boundary(text, d + 3)
     THEN d + 2 ELSE 0

\* re.sub(CAPACITY_PATTERN, '', text)
RECURSIVE SubCapacity(_, _)
SubCapacity(text, i) ==
  IF i > Len(text) THEN <<>>
  ELSE LET e == CapacityPatternAt(text, i)
       IN IF e > 0 THEN SubCapacity(text, e + 1)
          ELSE <<text[i]>> \o SubCapacity(text, i + 1)

normalize_text_base(text) ==
  join(Without(split(SubCapacity(normalize_text(text), 1)), COLOR_WORDS))

extract_base_tokens(text) == Without(split(normalize_text_base(text)), STOP_WORDS)

(***************************************************************************)
(* FeatureExtractor                                                        *)
(***************************************************************************)
\* first element of list satisfying membership in words; None if no such
RECURSIVE FirstIn(_, _)
FirstIn(tokens, words) ==
  IF tokens = <<>> THEN None
  ELSE IF InList(Head(tokens), words) THEN Head(tokens)
  ELSE FirstIn(Tail(tokens), words)

\* first brand of the list that is a substring of the text; None if no such
RECURSIVE FirstContained(_, _)
FirstContained(words, text) ==
  IF words = <<>> THEN None
  ELSE IF Contains(text, Head(words)) THEN Head(words)
  ELSE FirstContained(Tail(words), text)

\* the two loops of extract_brand over the normalized name
BrandIn(normalized, byToken) ==
  IF byToken # None THEN byToken ELSE FirstContained(BRANDS, normalized)

BrandInNormalized(normalized) == BrandIn(normalized, FirstIn(split(normalized), BRANDS))

extract_brand(name) == BrandInNormalized(normalize_text(name))

\* str.replace(old, ''): every non-overlapping occurrence, left to right
RECURSIVE Remove(_, _, _)
Remove(text, old, i) ==
  IF i > Len(text) THEN <<>>
  ELSE IF old # <<>> /\ StartsAt(text, i, old) THEN Remove(text, old, i + Len(old))
  ELSE <<text[i]>> \o Remove(text, old, i + 1)

\* the words of model_patterns
W == [ iphone |-> <<"i","p","h","o","n","e">>,
       galaxy |-> <<"g","a","l","a","x","y">>,
       pixel |-> <<"p","i","x","e","l">>,
       ipad |-> <<"i","p","a","d">>,
       macbook |-> <<"m","a","c","b","o","o","k">>,
       pro |-> <<"p","r","o">>,
       plus |-> <<"p","l","u","s">>,
       max |-> <<"m","a","x">>,
       mini |-> <<"m","i","n","i">>,
       ultra |-> <<"u","l","t","r","a">>,
       xl |-> <<"x","l">>,
       air |-> <<"a","i","r">> ]

\* (?:w1|w2|...)? at position i: the end of the first alternative that matches,
\* i-1 when none does (the group is optional)
RECURSIVE OptAlt(_, _, _)
OptAlt(text, i, alts) ==
  IF alts = <<>> THEN i - 1
  ELSE IF StartsAt(text, i, Head(alts)) THEN i + Len(Head(alts)) - 1
  ELSE OptAlt(text, i, Tail(alts))

\* <after a prefix ending at p> \s*\d+\s*(?:alts)? : end of the match, 0 if none
NumberSuffixAt(text, p, alts) ==
  LET s1 == SpacesEnd(text, p + 1)
      d == DigitsEnd(text, s1 + 1)
      s2 == SpacesEnd(text, d + 1)
  IN IF d > s1 THEN OptAlt(text, s2 + 1, alts) ELSE 0

\* r'(<word>\s*\d+\s*(?:alts)?)' at i
WordNumberAt(text, i, word, alts) ==
  IF StartsAt(text, i, word) THEN NumberSuffixAt(text, i + Len(word) - 1, alts) ELSE 0

\* r'(galaxy\s*[a-z]\d+\s*(?:ultra|plus)?)' at i
GalaxyAt(text, i) ==
  IF StartsAt(text, i, W.galaxy)
  THEN LET s == SpacesEnd(text, i + Len(W.galaxy))
           d == DigitsEnd(text, s + 2)
           s2 == SpacesEnd(text, d + 1)
       IN IF s + 1 <= Len(text) /\ IsLower(text[s + 1]) /\ d > s + 1
          THEN OptAlt(text, s2 + 1, <<W.ultra, W.plus>>) ELSE 0
  ELSE 0

\* r'(<word>\s*(?:alts)?\s*\d*)' at i: after the word everything is optional
WordOptNumberAt(text, i, word, alts) ==
  IF StartsAt(text, i, word)
  THEN LET s1 == SpacesEnd(text, i + Len(word))
           a == OptAlt(text, s1 + 1, alts)
           s2 == SpacesEnd(text, a + 1)
       IN DigitsEnd(text, s2 + 1)
  ELSE 0

\* r'([a-z]+\s*\d+\s*(?:pro|plus|max|ultra)?)' at i
GenericAt(text, i) ==
  LET l == LowersEnd(text, i)
  IN IF l >= i THEN NumberSuffixAt(text, l, <<W.pro, W.plus, W.max, W.ultra>>) ELSE 0

\* end of the match of model pattern number k at i; 0 if the pattern does not match there
PatternAt(k, text, i) ==
  CASE k = 1 -> WordNumberAt(text, i, W.iphone, <<W.pro, W.plus, W.max, W.mini>>)
    [] k = 2 -> GalaxyAt(text, i)
    [] k = 3 -> WordNumberAt(text, i, W.pixel, <<W.pro, W.xl>>)
    [] k = 4 -> WordOptNumberAt(text, i, W.ipad, <<W.pro, W.air, W.mini>>)
    [] k = 5 -> WordOptNumberAt(text, i, W.macbook, <<W.pro, W.air>>)
    [] OTHER -> GenericAt(text, i)

NumModelPatterns == 6

\* re.search(pattern k, text): group(1).strip() of the leftmost match; None if none
LeftmostMatch(k, text, starts) ==
  IF starts = {} THEN None
  ELSE strip(SubSeq(text, CHOOSE x \in starts : \A y \in starts : x <= y,
                    PatternAt(k, text, CHOOSE x \in starts : \A y \in starts : x <= y)))

SearchPattern(k, text) ==
  LeftmostMatch(k, text, {i \in 1..Len(text) : PatternAt(k, text, i) > 0})

\* the loop over model_patterns: the first pattern with a match decides
RECURSIVE FirstPattern(_, _)
RECURSIVE FirstPatternOr(_, _, _)
FirstPatternOr(k, text, found) ==
  IF found # None THEN found ELSE FirstPattern(k + 1, text)

FirstPattern(k, text) ==
  IF k > NumModelPatterns THEN None
  ELSE FirstPatternOr(k, text, SearchPattern(k, text))

\* normalized.replace(brand, '').strip() when the brand is known
WithoutBrand(normalized, brand) ==
  IF Truthy(brand) THEN strip(Remove(normalized, brand, 1)) ELSE normalized

extract_model(name, brand) == FirstPattern(1, WithoutBrand(normalize_text(name), brand))

\* end of the match of r'(\d+(?:gb|tb|mb))' at i; 0 if none
CapacityAt(text, i) ==
  LET d == DigitsEnd(text, i)
  IN IF d >= i /\ IsUnit(text, d + 1) THEN d + 2 ELSE 0

FirstCapacity(normalized, starts) ==
  IF starts = {} THEN None
  ELSE SubSeq(normalized, CHOOSE x \in starts : \A y \in starts : x <= y,
              CapacityAt(normalized, CHOOSE x \in starts : \A y \in starts : x <= y))

SearchCapacity(normalized) ==
  FirstCapacity(normalized, {i \in 1..Len(normalized) : CapacityAt(normalized, i) > 0})

extract_capacity(name) == SearchCapacity(normalize_text(name))

\* first adjacent token pair "t1 t2" that contains a colour as a substring
RECURSIVE FirstTwoWord(_, _)
RECURSIVE TwoWordOr(_, _, _)
TwoWordOr(tokens, i, two_word) ==
  IF \E c \in 1..Len(colors) : Contains(two_word, colors[c]) THEN two_word
  ELSE FirstTwoWord(tokens, i + 1)

FirstTwoWord(tokens, i) ==
  IF i + 1 > Len(tokens) THEN None
  ELSE TwoWordOr(tokens, i, tokens[i] \o <<" ">> \o tokens[i + 1])

\* the single-token loop, then the loop over adjacent pairs
ColorIn(tokens, single) == IF single # None THEN single ELSE FirstTwoWord(tokens, 1)

ColorOfTokens(tokens) == ColorIn(tokens, FirstIn(tokens, colors))

extract_color(name) == ColorOfTokens(split(normalize_text(name)))

\* end of the match of r'\b\d+\s*(?:gb|tb|mb)\b' (re.IGNORECASE) at i; 0 if none
DisplayCapacityAt(text, i) ==
  LET d == DigitsEnd(text, i)
      s == SpacesEnd(text, d + 1)
  IN IF d >= i /\ Boundary(text, i) /\ IsUnit(lower(text), s + 1) /\ Boundary(text, s + 3)
     THEN s + 2 ELSE 0

RECURSIVE SubDisplayCapacity(_, _)
SubDisplayCapacity(text, i) ==
  IF i > Len(text) THEN <<>>
  ELSE LET e == DisplayCapacityAt(text, i)
       IN IF e > 0 THEN SubDisplayCapacity(text, e + 1)
          ELSE <<text[i]>> \o SubDisplayCapacity(text, i + 1)

\* re.sub(r'\b' + re.escape(word) + r'\b', '', text, flags=re.IGNORECASE)
RECURSIVE SubWord(_, _, _)
SubWord(text, word, i) ==
  IF i > Len(text) THEN <<>>
  ELSE IF /\ word # <<>>
          /\ StartsAt(lower(text), i, word)
          /\ Boundary(text, i)
          /\ Boundary(text, i + Len(word))
       THEN SubWord(text, word, i + Len(word))
       ELSE <<text[i]>> \o SubWord(text, word, i + 1)

\* return base or name
BaseOr(base, name) == IF base # <<>> THEN base ELSE name

\* the colour, when one is found, removed; then re.sub(r'\s+', ' ', base).strip()
WithoutColor(base, color) ==
  join(split(IF Truthy(color) THEN SubWord(base, color, 1) ELSE base))

WithoutColorOf(base) == WithoutColor(base, extract_color(base))

build_base_name(name) ==
  IF ~Truthy(name) THEN <<>>
  ELSE BaseOr(WithoutColorOf(SubDisplayCapacity(name, 1)), name)

(***************************************************************************)
(* Listings the acquisition side delivers: names and brand fields          *)
(***************************************************************************)
\* the listing names, each written out as its characters:
\*   iphone16_128: "iPhone 16 128GB"
\*   iphone16_256_white: "iPhone 16 256GB White"
\*   iphone16: "iPhone 16"
\*   iphone16pro_128: "iPhone 16 Pro 128GB"
\*   empty: ""
\*   apple_iphone16_128_black: "Apple iPhone 16 128GB Black"
\*   apple_iphone16_256_white: "Apple iPhone 16 256GB White"
\*   apple_iphone16pro_256_titanium: "Apple iPhone 16 Pro 256GB Titanium"
\*   galaxy_a36: "Samsung Galaxy A36 5G 256GB Awesome Black"
\*   galaxy_a56: "Samsung Galaxy A56 5G 256GB Awesome Graphite"
\*   pixel9: "Google Pixel 9 128GB Black"
\*   pixel9pro: "Google Pixel 9 Pro 128GB Black"
N == [ iphone16_128 |->
         <<"i","P","h","o","n","e"," ","1","6"," ","1","2","8","G","B">>,
       iphone16_256_white |->
         <<"i","P","h","o","n","e"," ","1","6"," ","2","5","6","G","B"," ","W","h","i","t","e">>,
       iphone16 |->
         <<"i","P","h","o","n","e"," ","1","6">>,
       iphone16pro_128 |->
         <<"i","P","h","o","n","e"," ","1","6"," ","P","r","o"," ","1","2","8","G","B">>,
       empty |->
         <<>>,
       apple_iphone16_128_black |->
         <<"A","p","p","l","e"," ","i","P","h","o","n","e"," ","1","6"," ","1","2","8","G","B"," ","B","l","a","c","k">>,
       apple_iphone16_256_white |->
         <<"A","p","p","l","e"," ","i","P","h","o","n","e"," ","1","6"," ","2","5","6","G","B"," ","W","h","i","t","e">>,
       apple_iphone16pro_256_titanium |->
         <<"A","p","p","l","e"," ","i","P","h","o","n","e"," ","1","6"," ","P","r","o"," ","2","5","6","G","B"," ","T","i","t","a","n","i","u","m">>,
       galaxy_a36 |->
         <<"S","a","m","s","u","n","g"," ","G","a","l","a","x","y"," ","A","3","6"," ","5","G"," ","2","5","6","G","B"," ","A","w","e","s","o","m","e"," ","B","l","a","c","k">>,
       galaxy_a56 |->
         <<"S","a","m","s","u","n","g"," ","G","a","l","a","x","y"," ","A","5","6"," ","5","G"," ","2","5","6","G","B"," ","A","w","e","s","o","m","e"," ","G","r","a","p","h","i","t","e">>,
       pixel9 |->
         <<"G","o","o","g","l","e"," ","P","i","x","e","l"," ","9"," ","1","2","8","G","B"," ","B","l","a","c","k">>,
       pixel9pro |->
         <<"G","o","o","g","l","e"," ","P","i","x","e","l"," ","9"," ","P","r","o"," ","1","2","8","G","B"," ","B","l","a","c","k">> ]

\* the brand fields
B == [ Apple |-> <<"A","p","p","l","e">>,
       APPLE |-> <<"A","P","P","L","E">>,
       Samsung |-> <<"S","a","m","s","u","n","g">> ]
\* "smartphones"
CAT_PHONES == <<"s","m","a","r","t","p","h","o","n","e","s">>

Listing(name, brand) == [name |-> name, brand |-> brand, category |-> CAT_PHONES]

\* the listings saved to the catalog
CatalogListings ==
  { Listing(N.iphone16_128, B.Apple),
    Listing(N.iphone16_128, B.Samsung),
    Listing(N.iphone16_256_white, None),
    Listing(N.iphone16, B.APPLE),
    Listing(N.iphone16pro_128, B.Samsung),
    Listing(N.empty, None) }

\* the listings compared pairwise by is_match
PairNames ==
  { N.apple_iphone16_128_black, N.apple_iphone16_256_white,
    N.apple_iphone16pro_256_titanium, N.galaxy_a36, N.galaxy_a56,
    N.pixel9, N.pixel9pro, N.iphone16, N.empty }

PairBrands == {None, B.Apple, B.APPLE, B.Samsung}

PairListings == {Listing(n, b) : n \in PairNames, b \in PairBrands}

(***************************************************************************)
(* Each text function is evaluated once per text of the model: the tables  *)
(* below hold the values of the operators above.                          *)
(***************************************************************************)
ListingNames == {l.name : l \in CatalogListings} \cup PairNames

Texts == ListingNames \cup {build_base_name(n) : n \in ListingNames}

BrandTexts == {None} \cup {l.brand : l \in CatalogListings} \cup PairBrands
              \cup {extract_brand(n) : n \in ListingNames}

NormalizedBaseOf == [t \in Texts |-> normalize_text_base(t)]
BaseTokensOf == [t \in Texts |-> extract_base_tokens(t)]
CapacityOf == [t \in Texts |-> extract_capacity(t)]
BrandOfText == [t \in Texts |-> extract_brand(t)]
ModelOf == [t \in Texts, b \in BrandTexts |-> extract_model(t, b)]
BaseNameOf == [t \in Texts |-> build_base_name(t)]


(***************************************************************************)
(* SimilarityScorer.  A score is an exact fraction <<numerator,            *)
(* denominator>>; the code computes the same quantities in binary floating *)
(* point.                                                                  *)
(***************************************************************************)
\* length of the common run a[i..], b[j..] inside a[..ahi], b[..bhi]
RECURSIVE MatchLen(_, _, _, _, _, _)
MatchLen(a, b, i, j, ahi, bhi) ==
  IF i <= ahi /\ j <= bhi /\ a[i] = b[j]
  THEN 1 + MatchLen(a, b, i + 1, j + 1, ahi, bhi) ELSE 0

\* the largest element of a non-empty set of numbers, and the smallest
Max(S) == CHOOSE x \in S : \A y \in S : y <= x
Min(S) == CHOOSE x \in S : \A y \in S : x <= y

\* the block of length k starting at a[i] that is the earliest in b
EarliestInB(i, blo, bhi, len, k) ==
  <<i, Min({j \in blo..bhi : len[j] = k}), k>>

\* the longest block starting at a[i]: <<i, j, k>> with k the largest, j the earliest
LongestOf(i, blo, bhi, len) ==
  EarliestInB(i, blo, bhi, len, Max({len[x] : x \in blo..bhi}))

BestInRow(a, b, i, blo, ahi, bhi) ==
  LongestOf(i, blo, bhi, [j \in blo..bhi |-> MatchLen(a, b, i, j, ahi, bhi)])

\* the block of length k that is the earliest in a
EarliestInA(alo, ahi, row, k) ==
  row[Min({i \in alo..ahi : row[i][3] = k})]

\* the longest block of all rows, the earliest in a of those
EarliestLongest(alo, ahi, row) ==
  EarliestInA(alo, ahi, row, Max({row[x][3] : x \in alo..ahi}))

\* SequenceMatcher.find_longest_match(alo, ahi, blo, bhi) without junk: the
\* longest block, of those the earliest in a, of those the earliest in b
\* (bounds inclusive here)
find_longest_match(a, b, alo, ahi, blo, bhi) ==
  EarliestLongest(alo, ahi, [i \in alo..ahi |-> BestInRow(a, b, i, blo, ahi, bhi)])

\* total size of SequenceMatcher.get_matching_blocks(): the longest block m,
\* then the same to its left and to its right
RECURSIVE Matches(_, _, _, _, _, _)
RECURSIVE MatchesAround(_, _, _, _, _, _, _)
MatchesAround(a, b, alo, ahi, blo, bhi, m) ==
  IF m[3] = 0 THEN 0
  ELSE m[3] + Matches(a, b, alo, m[1] - 1, blo, m[2] - 1)
            + Matches(a, b, m[1] + m[3], ahi, m[2] + m[3], bhi)

Matches(a, b, alo, ahi, blo, bhi) ==
  IF alo > ahi \/ blo > bhi THEN 0
  ELSE MatchesAround(a, b, alo, ahi, blo, bhi, find_longest_match(a, b, alo, ahi, blo, bhi))

\* SequenceMatcher(None, a, b).ratio() = 2.0 * matches / (len(a) + len(b)), 1.0 when both are empty
ratio(a, b) ==
  IF Len(a) + Len(b) = 0 THEN <<1, 1>>
  ELSE <<2 * Matches(a, b, 1, Len(a), 1, Len(b)), Len(a) + Len(b)>>

calculate_similarity(text1, text2) == ratio(normalize_text(text1), normalize_text(text2))

\* ratio, evaluated once per pair of base-normalized texts of the model
Bases == {NormalizedBaseOf[t] : t \in Texts}
RatioOf == [a \in Bases, b \in Bases |-> ratio(a, b)]

calculate_similarity_base(text1, text2) ==
  RatioOf[NormalizedBaseOf[text1], NormalizedBaseOf[text2]]

ToSet(list) == {list[i] : i \in 1..Len(list)}

\* Jaccard with the size of the first set as the denominator
Jaccard_OverFirst(set1, set2) ==
  IF Cardinality(set1 \cup set2) > 0
  THEN <<Cardinality(set1 \cap set2), Cardinality(set1)>> ELSE <<0, 1>>

\* intersection / union if union > 0 else 0.0
Jaccard(set1, set2) ==
  IF Cardinality(set1 \cup set2) > 0
  THEN <<Cardinality(set1 \cap set2), Cardinality(set1 \cup set2)>> ELSE <<0, 1>>

calculate_token_overlap(tokens1, tokens2) ==
  IF tokens1 = <<>> \/ tokens2 = <<>> THEN <<0, 1>>
  ELSE Jaccard(ToSet(tokens1), ToSet(tokens2))

\* x >= y, x > y and x = y on fractions with positive denominators
FracGeq(x, y) == x[1] * y[2] >= y[1] * x[2]
FracGt(x, y) == x[1] * y[2] > y[1] * x[2]
FracEq(x, y) == x[1] * y[2] = y[1] * x[2]

\* product.brand or self.extract_brand(product.name)
BrandOf(product) ==
  IF Truthy(product.brand) THEN product.brand ELSE BrandOfText[product.name]

\* Agree with an absent value counted as a disagreement
Agree_Strict(x1, x2) == Truthy(x1) /\ Truthy(x2) /\ x1 = x2

\* x1 == x2 if x1 and x2 else True
Agree(x1, x2) == IF Truthy(x1) /\ Truthy(x2) THEN x1 = x2 ELSE TRUE

\* the weighted sum of is_match, in hundredths:
\* name_similarity * 0.4 + token_overlap * 0.4 + capacity * 0.1 + model * 0.1
WeightedSum(name_similarity, token_overlap, capacity_match, model_match) ==
  << 40 * name_similarity[1] * token_overlap[2]
     + 40 * token_overlap[1] * name_similarity[2]
     + (IF capacity_match THEN 10 ELSE 0) * name_similarity[2] * token_overlap[2]
     + (IF model_match THEN 10 ELSE 0) * name_similarity[2] * token_overlap[2],
     name_similarity[2] * token_overlap[2] >>

MatchScore(product1, product2) ==
  WeightedSum(calculate_similarity_base(product1.name, product2.name),
              calculate_token_overlap(BaseTokensOf[product1.name],
                                      BaseTokensOf[product2.name]),
              Agree(CapacityOf[product1.name], CapacityOf[product2.name]),
              Agree(ModelOf[product1.name, BrandOf(product1)],
                    ModelOf[product2.name, BrandOf(product2)]))

\* BrandsDiffer without the veto: the brands are never told apart
BrandsDiffer_NoVeto(brand1, brand2) == FALSE

\* brand1 and brand2 and brand1.lower() != brand2.lower()
BrandsDiffer(brand1, brand2) ==
  Truthy(brand1) /\ Truthy(brand2) /\ lower(brand1) # lower(brand2)

\* is_match with a capacity mismatch treated as a veto, like the brand's
is_match_CapacityVeto(product1, product2, threshold) ==
  IF BrandsDiffer(BrandOf(product1), BrandOf(product2)) THEN FALSE
  ELSE IF ~Agree(CapacityOf[product1.name], CapacityOf[product2.name])
  THEN FALSE
  ELSE FracGeq(MatchScore(product1, product2), <<threshold, 1>>)

\* threshold in hundredths (the default 0.7 is 70)
is_match(product1, product2, threshold) ==
  IF BrandsDiffer(BrandOf(product1), BrandOf(product2)) THEN FALSE
  ELSE FracGeq(MatchScore(product1, product2), <<threshold, 1>>)

DEFAULT_THRESHOLD == 70

(***************************************************************************)
(* MatchEngine: pure steps on a catalog s = [products, masters, variants,  *)
(* stats, paths].  products, masters and variants are the three tables in  *)
(* primary-key order; a product's id is its position.  stats is the        *)
(* dictionary match_products returns; paths records, for each product the  *)
(* last run processed, the counter the run incremented for it.             *)
(***************************************************************************)
Ids(table) == {table[i].id : i \in 1..Len(table)}

\* the id a flush gives a new row: one more than the largest id of the table
NextId(table) ==
  IF table = <<>> THEN 1
  ELSE 1 + (CHOOSE x \in Ids(table) : \A y \in Ids(table) : y <= x)

\* session.query(MasterProduct).get(id): the id of the row found, NULL for None
GetMaster(masters, id) == IF id \in Ids(masters) THEN id ELSE NULL

\* score = name_sim * 0.6 + token_overlap * 0.4, as a fraction
Weighted(name_sim, token_overlap) ==
  << 3 * name_sim[1] * token_overlap[2] + 2 * token_overlap[1] * name_sim[2],
     5 * name_sim[2] * token_overlap[2] >>

\* master.search_tokens.split() if master.search_tokens else []
MasterTokens(master) ==
  IF Truthy(master.search_tokens) THEN split(master.search_tokens) ELSE <<>>

MasterScore(product, master) ==
  Weighted(calculate_similarity_base(product.name, master.canonical_name),
           calculate_token_overlap(BaseTokensOf[product.name], MasterTokens(master)))

\* the quick filtering by brand: the master is skipped
BrandSkipped(product, master) ==
  /\ Truthy(master.brand) /\ Truthy(product.brand)
  /\ lower(master.brand) # lower(product.brand)

\* best_score >= 0.75
MASTER_THRESHOLD == <<3, 4>>

\* Keep with score >= best_score: the last master wins a tie
Keep_LastOnTies(best, i, score) == IF FracGeq(score, best[2]) THEN <<i, score>> ELSE best

\* if score > best_score: best_score, best_match = score, master
Keep(best, i, score) == IF FracGt(score, best[2]) THEN <<i, score>> ELSE best

\* the scan of find_matching_master_product from master number i on, carrying
\* <<best_match (a position, 0 for None), best_score>>
RECURSIVE ScanMasters(_, _, _, _)
ScanMasters(masters, product, i, best) ==
  IF i > Len(masters) THEN best
  ELSE IF BrandSkipped(product, masters[i]) THEN ScanMasters(masters, product, i + 1, best)
  ELSE ScanMasters(masters, product, i + 1,
                   Keep(best, i, MasterScore(product, masters[i])))

\* if best_match and best_score >= 0.75: return best_match
Accept(best) == IF best[1] # 0 /\ FracGeq(best[2], MASTER_THRESHOLD) THEN best[1] ELSE 0

\* the position in masters of the master found; 0 for None
find_matching_master_product(masters, product) ==
  Accept(ScanMasters(masters, product, 1, <<0, <<0, 1>> >>))

MasterRow(id, product, brand, base_name) ==
  [ id |-> id,
    canonical_name |-> base_name,
    brand |-> brand,
    model |-> ModelOf[product.name, brand],
    category |-> product.category,
    normalized_name |-> NormalizedBaseOf[base_name],
    search_tokens |-> join(BaseTokensOf[base_name]) ]

\* create_master_product with the brand field alone: no brand taken from the name
create_master_product_FieldBrand(masters, product) ==
  MasterRow(NextId(masters), product, product.brand, BaseNameOf[product.name])

\* the row create_master_product adds
create_master_product(masters, product) ==
  MasterRow(NextId(masters), product, BrandOf(product), BaseNameOf[product.name])

UNKNOWN == <<"u","n","k","n","o","w","n">>

\* OrUnknown without the "unknown" label: the capacity as extracted
OrUnknown_Raw(capacity) == capacity

\* capacity = extract_capacity(name); if not capacity: capacity = "unknown"
OrUnknown(capacity) == IF Truthy(capacity) THEN capacity ELSE UNKNOWN

CapacityLabel(name) == OrUnknown(CapacityOf[name])

\* VariantsOf without the filter on the capacity: any variant of the master
VariantsOf_AnyCapacity(variants, master_id, capacity) ==
  {i \in 1..Len(variants) : variants[i].master_product_id = master_id}

\* the positions of the variants of a master with a capacity
VariantsOf(variants, master_id, capacity) ==
  {i \in 1..Len(variants) :
     variants[i].master_product_id = master_id /\ variants[i].capacity = capacity}

\* .first() of the query, or a new row: <<variants after the call, id of the variant>>
FirstOrNew(variants, master_id, capacity, found) ==
  IF found # {}
  THEN <<variants, variants[CHOOSE i \in found : \A j \in found : i <= j].id>>
  ELSE << Append(variants, [id |-> NextId(variants), master_product_id |-> master_id,
                            capacity |-> capacity]),
          NextId(variants) >>

\* VariantFor without the lookup: a new variant at every call
VariantFor_AlwaysNew(variants, master_id, capacity) ==
  FirstOrNew(variants, master_id, capacity, {})

VariantFor(variants, master_id, capacity) ==
  FirstOrNew(variants, master_id, capacity, VariantsOf(variants, master_id, capacity))

get_or_create_variant(variants, master_id, product) ==
  VariantFor(variants, master_id, CapacityLabel(product.name))

\* Selected without the filter: every product
Selected_All(products) == 1..Len(products)

\* the products match_products selects: no master or no variant
Selected(products) ==
  {i \in 1..Len(products) :
     products[i].master_product_id = NULL \/ products[i].variant_id = NULL}

NoStats == [total_products |-> 0, matched_to_existing |-> 0,
            new_master_created |-> 0, already_matched |-> 0]

\* Store without product.master_product_id = master.id
Store_NoMasterLink(s, i, masters1, master_id, path, gv) ==
  [ products |-> [s.products EXCEPT ![i].variant_id = gv[2]],
    masters |-> masters1,
    variants |-> gv[1],
    stats |-> [s.stats EXCEPT ![path] = @ + 1],
    paths |-> s.paths @@ (i :> path) ]

\* product.master_product_id = master.id; product.variant_id = variant.id
Store(s, i, masters1, master_id, path, gv) ==
  [ products |-> [s.products EXCEPT ![i].master_product_id = master_id,
                                    ![i].variant_id = gv[2]],
    masters |-> masters1,
    variants |-> gv[1],
    stats |-> [s.stats EXCEPT ![path] = @ + 1],
    paths |-> s.paths @@ (i :> path) ]

\* variant = self.get_or_create_variant(master, product)
Assign(s, i, masters1, master_id, path) ==
  Store(s, i, masters1, master_id, path,
        get_or_create_variant(s.variants, master_id, s.products[i]))

\* CreateStage with the new master put in place of the table
CreateStage_Replace(s, i, master) ==
  Assign(s, i, <<master>>, master.id, "new_master_created")

\* else: master = self.create_master_product(product)
CreateStage(s, i, master) ==
  Assign(s, i, Append(s.masters, master), master.id, "new_master_created")

\* FindStage with the master found rewritten from the listing linked to it
FindStage_RefreshMaster(s, i, found) ==
  IF found # 0
  THEN Assign(s, i,
              [s.masters EXCEPT ![found] =
                 MasterRow(s.masters[found].id, s.products[i], BrandOf(s.products[i]),
                           BaseNameOf[s.products[i].name])],
              s.masters[found].id, "matched_to_existing")
  ELSE Assign(s, i, Append(s.masters, create_master_product(s.masters, s.products[i])),
              NextId(s.masters), "new_master_created")

\* master = self.find_matching_master_product(product); if master: link
FindStage(s, i, found) ==
  IF found # 0 THEN Assign(s, i, s.masters, s.masters[found].id, "matched_to_existing")
  ELSE CreateStage(s, i, create_master_product(s.masters, s.products[i]))

\* LinkStage counting already_matched before the master is looked up: a listing
\* whose link is reset is counted twice
LinkStage_CountLinked(s, i, linked) ==
  IF linked # NULL THEN Assign(s, i, s.masters, linked, "already_matched")
  ELSE FindStage([s EXCEPT !.stats.already_matched =
                     @ + (IF s.products[i].master_product_id # NULL THEN 1 ELSE 0)],
                 i, find_matching_master_product(s.masters, s.products[i]))

\* LinkStage without the test of the link: the master is searched for every listing
LinkStage_AlwaysSearch(s, i, linked) ==
  FindStage(s, i, find_matching_master_product(s.masters, s.products[i]))

\* if master: already_matched += 1; else the link is reset and the master searched
LinkStage(s, i, linked) ==
  IF linked # NULL THEN Assign(s, i, s.masters, linked, "already_matched")
  ELSE FindStage(s, i, find_matching_master_product(s.masters, s.products[i]))

\* one iteration of the loop of match_products, on product number i
MatchOne(s, i) ==
  LinkStage(s, i, IF s.products[i].master_product_id # NULL
                  THEN GetMaster(s.masters, s.products[i].master_product_id)
                  ELSE NULL)

\* the loop over the selected products, in id order, from number i on
RECURSIVE MatchFrom(_, _, _)
MatchFrom(s, sel, i) ==
  IF i > Len(s.products) THEN s
  ELSE IF i \in sel THEN MatchFrom(MatchOne(s, i), sel, i + 1)
  ELSE MatchFrom(s, sel, i + 1)

\* stats['total_products'] = len(products), then the loop
MatchSelected(s, sel) ==
  MatchFrom([s EXCEPT !.stats = [NoStats EXCEPT !.total_products = Cardinality(sel)],
                      !.paths = <<>>],
            sel, 1)

\* match_products blind to the rows of earlier runs: its session starts with
\* empty master and variant tables
match_products_OwnRows(s) ==
  MatchSelected([s EXCEPT !.masters = <<>>, !.variants = <<>>], Selected(s.products))

\* match_products run to its final commit
match_products(s) == MatchSelected(s, Selected(s.products))

\* ClearAll without the delete of the master products
ClearAll_KeepMasters(s) ==
  [s EXCEPT !.products = [i \in 1..Len(s.products) |->
                            [s.products[i] EXCEPT !.master_product_id = NULL,
                                                  !.variant_id = NULL]],
            !.variants = <<>>]

\* ClearAll without the delete of the variants
ClearAll_KeepVariants(s) ==
  [s EXCEPT !.products = [i \in 1..Len(s.products) |->
                            [s.products[i] EXCEPT !.master_product_id = NULL,
                                                  !.variant_id = NULL]],
            !.masters = <<>>]

\* ClearAll with the two delete() calls left out: only the links are cleared
ClearAll_LinksOnly(s) ==
  [s EXCEPT !.products = [i \in 1..Len(s.products) |->
                            [s.products[i] EXCEPT !.master_product_id = NULL,
                                                  !.variant_id = NULL]]]

\* the first transaction of rematch_all_products: links cleared, both tables emptied
ClearAll(s) ==
  [s EXCEPT !.products = [i \in 1..Len(s.products) |->
                            [s.products[i] EXCEPT !.master_product_id = NULL,
                                                  !.variant_id = NULL]],
            !.variants = <<>>,
            !.masters = <<>>]

rematch_all_products(s) == match_products(ClearAll(s))

(***************************************************************************)
(* search_products.py: the masters found for a query, then one result per  *)
(* variant that has listings, or one result for a master whose listings    *)
(* have no (matching) variant.  A result is kept as its variant id, its    *)
(* master id and the number of its stores.                                 *)
(***************************************************************************)
\* rows[:limit]
Take(rows, limit) == SubSeq(rows, 1, Min({limit, Len(rows)}))

\* MasterProduct.normalized_name.like("%normalized_query%"), when the query is not empty
SubstringMasters(masters, normalized_query) ==
  IF Truthy(normalized_query)
  THEN SelectSeq(masters, LAMBDA m : Contains(m.normalized_name, normalized_query))
  ELSE masters

\* calculate_token_overlap(tokens, master.search_tokens.split())
Overlap(tokens, master) == calculate_token_overlap(tokens, split(master.search_tokens))

\* scored_masters.sort(key=overlap, reverse=True): the sort is stable, rows of
\* equal overlap keep their order
SortByOverlap(rows, tokens) ==
  [r \in 1..Len(rows) |->
     rows[CHOOSE i \in 1..Len(rows) :
            r = 1 + Cardinality({j \in 1..Len(rows) :
                       \/ FracGt(Overlap(tokens, rows[j]), Overlap(tokens, rows[i]))
                       \/ (j < i /\ Overlap(tokens, rows[j]) = Overlap(tokens, rows[i]))})]]

\* TokenMasters without the sort: the masters kept stay in table order
TokenMasters_Unsorted(masters, tokens) ==
  SelectSeq(masters, LAMBDA m : FracGeq(Overlap(tokens, m), <<3, 10>>))

\* the masters with at least 30% token overlap, best first
TokenMasters(masters, tokens) ==
  SortByOverlap(SelectSeq(masters, LAMBDA m : FracGeq(Overlap(tokens, m), <<3, 10>>)),
                tokens)

\* the substring search, limited; the token search when it found nothing
\* (q holds normalized_query, tokens and capacity_query)
FindMasters(masters, q, limit) ==
  LET direct == Take(SubstringMasters(masters, q.normalized), limit)
  IN  IF direct = <<>> /\ q.tokens # <<>>
      THEN Take(TokenMasters(masters, q.tokens), limit)
      ELSE direct

\* the number of listings whose column (variant_id or master_product_id) is id
StoresOf(products, column, id) ==
  Cardinality({i \in 1..Len(products) : products[i][column] = id})

\* the variants of the master, with the capacity of the query when it has one
QueryVariants(variants, master_id, capacity_query) ==
  SelectSeq(variants, LAMBDA v : /\ v.master_product_id = master_id
                                  /\ (Truthy(capacity_query) => v.capacity = capacity_query))

\* for variant in variants: a result for each variant that has listings;
\* after results.append(result): if len(results) >= limit: break
RECURSIVE VariantResults(_, _, _, _, _)
VariantResults(results, vs, j, products, limit) ==
  IF j > Len(vs) THEN results
  ELSE IF StoresOf(products, "variant_id", vs[j].id) = 0
  THEN VariantResults(results, vs, j + 1, products, limit)
  ELSE IF Len(results) + 1 >= limit
  THEN Append(results, [variant_id |-> vs[j].id,
                        master_id |-> vs[j].master_product_id,
                        store_count |-> StoresOf(products, "variant_id", vs[j].id)])
  ELSE VariantResults(Append(results, [variant_id |-> vs[j].id,
                                       master_id |-> vs[j].master_product_id,
                                       store_count |-> StoresOf(products, "variant_id", vs[j].id)]),
                      vs, j + 1, products, limit)

\* for master in masters
RECURSIVE MasterResults(_, _, _, _, _, _)
\* after the loop over the variants: if len(results) >= limit: break
VariantsThen(results, ms, k, cat, capacity_query, limit) ==
  IF Len(results) >= limit THEN results
  ELSE MasterResults(results, ms, k + 1, cat, capacity_query, limit)

\* if not variants: one result for the listings of the master, if it has any,
\* then continue; else the results of its variants
MasterResults(results, ms, k, cat, capacity_query, limit) ==
  IF k > Len(ms) THEN results
  ELSE IF QueryVariants(cat.variants, ms[k].id, capacity_query) = <<>>
  THEN IF StoresOf(cat.products, "master_product_id", ms[k].id) = 0
       THEN MasterResults(results, ms, k + 1, cat, capacity_query, limit)
       ELSE MasterResults(Append(results,
                                 [variant_id |-> NULL, master_id |-> ms[k].id,
                                  store_count |-> StoresOf(cat.products, "master_product_id", ms[k].id)]),
                          ms, k + 1, cat, capacity_query, limit)
  ELSE VariantsThen(VariantResults(results,
                                   QueryVariants(cat.variants, ms[k].id, capacity_query),
                                   1, cat.products, limit),
                    ms, k, cat, capacity_query, limit)

\* q holds normalized_query, tokens and capacity_query of the query
search_products(cat, q, limit) ==
  MasterResults(<<>>, FindMasters(cat.masters, q, limit), 1, cat, q.capacity, limit)

(***************************************************************************)
(* The catalog as a state machine: listings are saved, match_products and  *)
(* rematch_all_products run to completion.                                 *)
(***************************************************************************)
MaxProducts == 3

\* the thresholds is_match is called with, in hundredths
Thresholds == {0, DEFAULT_THRESHOLD, 100}

VARIABLES products, masters, variants, stats, paths, op, pair, verdict, session

vars == <<products, masters, variants, stats, paths, op, pair, verdict, session>>

Catalog == [products |-> products, masters |-> masters, variants |-> variants,
            stats |-> stats, paths |-> paths]

Install(s) ==
  /\ products' = s.products
  /\ masters' = s.masters
  /\ variants' = s.variants
  /\ stats' = s.stats
  /\ paths' = s.paths

\* no run of match_products is in progress
IdleSession == [active |-> FALSE]

EmptyCatalog ==
  /\ products = <<>>
  /\ masters = <<>>
  /\ variants = <<>>
  /\ stats = NoStats
  /\ paths = <<>>
  /\ op = "init"
  /\ session = IdleSession

Init ==
  /\ EmptyCatalog
  /\ pair = None
  /\ verdict = None

\* Product(...) as database.save_products adds it: no master, no variant
NewProduct(l) ==
  [name |-> l.name, brand |-> l.brand, category |-> l.category,
   master_product_id |-> NULL, variant_id |-> NULL]

\* database.save_products, for a listing not yet stored
SaveProduct ==
  /\ ~session.active
  /\ Len(products) < MaxProducts
  /\ \E l \in CatalogListings : products' = Append(products, NewProduct(l))
  /\ op' = "save"
  /\ UNCHANGED <<masters, variants, stats, paths, pair, verdict, session>>

MatchBatch ==
  /\ Install(match_products(Catalog))
  /\ op' = "match"
  /\ UNCHANGED <<pair, verdict, session>>

RebuildAll ==
  /\ Install(rematch_all_products(Catalog))
  /\ op' = "rebuild"
  /\ UNCHANGED <<pair, verdict, session>>

Next == SaveProduct \/ MatchBatch \/ RebuildAll

Spec == Init /\ [][Next]_vars

(***************************************************************************)
(* The catalog when rows of master_products are deleted under it: SQLite   *)
(* does not enforce the foreign key of products.master_product_id, so the  *)
(* listings and variants of the deleted master keep its id.                *)
(***************************************************************************)
DeleteMaster ==
  /\ \E k \in 1..Len(masters) :
       masters' = SubSeq(masters, 1, k - 1) \o SubSeq(masters, k + 1, Len(masters))
  /\ op' = "delete"
  /\ UNCHANGED <<products, variants, stats, paths, pair, verdict, session>>

NextD == SaveProduct \/ MatchBatch \/ RebuildAll \/ DeleteMaster

SpecD == Init /\ [][NextD]_vars

(***************************************************************************)
(* is_match applied to a pair of listings                                  *)
(***************************************************************************)
InitPair ==
  /\ EmptyCatalog
  /\ pair \in [product1 : PairListings, product2 : PairListings, threshold : Thresholds]
  /\ verdict = None

ApplyIsMatch ==
  /\ op = "init"
  /\ verdict' = is_match(pair.product1, pair.product2, pair.threshold)
  /\ op' = "is_match"
  /\ UNCHANGED <<products, masters, variants, stats, paths, pair, session>>

SpecPair == InitPair /\ [][ApplyIsMatch]_vars

(***************************************************************************)
(* The catalog fed with listings whose brand field and name disagree: one  *)
(* store labels "Apple iPhone 16 128GB Black" with the brand "Samsung",    *)
(* others deliver the same name, or its 256GB variant, with no brand field.*)
(***************************************************************************)
MixedBrandListings ==
  { Listing(N.apple_iphone16_128_black, B.Samsung),
    Listing(N.apple_iphone16_128_black, None),
    Listing(N.apple_iphone16_256_white, None),
    Listing(N.empty, None) }

SaveMixedBrand ==
  /\ Len(products) < MaxProducts
  /\ \E l \in MixedBrandListings : products' = Append(products, NewProduct(l))
  /\ op' = "save"
  /\ UNCHANGED <<masters, variants, stats, paths, pair, verdict, session>>

SpecB == Init /\ [][SaveMixedBrand \/ MatchBatch \/ RebuildAll]_vars

(***************************************************************************)
(* match_products run one listing at a time.  products, masters, variants  *)
(* are the committed tables; session.work holds the tables as the running  *)
(* session sees them (its flushed, uncommitted rows included).  The        *)
(* session commits after every batch_size listings and at the end; a crash *)
(* or a failed commit ends the process, and the uncommitted transaction is *)
(* rolled back.  The record of a dead session is kept for reference.       *)
(***************************************************************************)
BatchSizes == {1, 2}

\* the query, stats['total_products'] = len(products), and the loop entered
BeginRun ==
  /\ ~session.active
  /\ \E b \in BatchSizes :
       session' = [active |-> TRUE, batch_size |-> b, start |-> Catalog,
                   todo |-> Selected(products), count |-> 0,
                   work |-> [Catalog EXCEPT
                               !.stats = [NoStats EXCEPT !.total_products =
                                            Cardinality(Selected(products))],
                               !.paths = <<>>]]
  /\ op' = "begin"
  /\ UNCHANGED <<products, masters, variants, stats, paths, pair, verdict>>

\* CommitIf writing the links of the listings without the rows they point to
CommitIf_LinksOnly(due, work) ==
  IF due
  THEN products' = work.products /\ UNCHANGED <<masters, variants>>
  ELSE UNCHANGED <<products, masters, variants>>

\* if (i + 1) % batch_size == 0: self.session.commit()
CommitIf(due, work) ==
  IF due
  THEN products' = work.products /\ masters' = work.masters /\ variants' = work.variants
  ELSE UNCHANGED <<products, masters, variants>>

\* StepRun with the rows flushed since the last commit not seen by the session
StepRun_CommittedOnly ==
  /\ session.active
  /\ session.todo # {}
  /\ session' = [session EXCEPT
                   !.work = MatchOne([session.work EXCEPT !.products = products,
                                                          !.masters = masters,
                                                          !.variants = variants],
                                     Min(session.todo)),
                   !.todo = session.todo \ {Min(session.todo)},
                   !.count = session.count + 1]
  /\ CommitIf((session.count + 1) % session.batch_size = 0, session'.work)
  /\ op' = "step"
  /\ UNCHANGED <<stats, paths, pair, verdict>>

\* one iteration of the loop, on the first listing not yet processed
StepRun ==
  /\ session.active
  /\ session.todo # {}
  /\ session' = [session EXCEPT !.work = MatchOne(session.work, Min(session.todo)),
                                !.todo = session.todo \ {Min(session.todo)},
                                !.count = session.count + 1]
  /\ CommitIf((session.count + 1) % session.batch_size = 0, session'.work)
  /\ op' = "step"
  /\ UNCHANGED <<stats, paths, pair, verdict>>

\* the final commit, and the statistics returned
FinishRun ==
  /\ session.active
  /\ session.todo = {}
  /\ Install(session.work)
  /\ session' = IdleSession
  /\ op' = "match"
  /\ UNCHANGED <<pair, verdict>>

\* Crash with the uncommitted work of the session written to the tables
Crash_NoRollback ==
  /\ session.active
  /\ session' = [session EXCEPT !.active = FALSE]
  /\ op' = "crash"
  /\ products' = session.work.products
  /\ masters' = session.work.masters
  /\ variants' = session.work.variants
  /\ UNCHANGED <<stats, paths, pair, verdict>>

\* the process dies with the loop entered and the final commit not done
Crash ==
  /\ session.active
  /\ session' = [session EXCEPT !.active = FALSE]
  /\ op' = "crash"
  /\ UNCHANGED <<products, masters, variants, stats, paths, pair, verdict>>

SpecC ==
  Init /\ [][SaveProduct \/ BeginRun \/ StepRun \/ FinishRun \/ Crash]_vars

\* rematch_all_products up to the loop of match_products: the links cleared and
\* both tables emptied in one transaction, committed, then the query
BeginRebuild ==
  /\ ~session.active
  /\ \E b \in BatchSizes :
       LET cleared == ClearAll(Catalog)
       IN  /\ session' = [active |-> TRUE, batch_size |-> b, start |-> cleared,
                           todo |-> Selected(cleared.products), count |-> 0,
                           work |-> [cleared EXCEPT
                                       !.stats = [NoStats EXCEPT !.total_products =
                                                    Cardinality(Selected(cleared.products))],
                                       !.paths = <<>>]]
           /\ products' = cleared.products
           /\ masters' = cleared.masters
           /\ variants' = cleared.variants
  /\ op' = "clear"
  /\ UNCHANGED <<stats, paths, pair, verdict>>

\* runs of match_products and of rematch_all_products, cut short or not
SpecR ==
  Init /\ [][SaveProduct \/ BeginRun \/ BeginRebuild \/ StepRun \/ FinishRun \/ Crash]_vars

(***************************************************************************)
(* A catalog in which some listings were linked to their master before     *)
(* variants were assigned: the query of match_products selects them as     *)
(* "products missing variant assignment".                                  *)
(***************************************************************************)
UnsetVariant ==
  /\ \E i \in 1..Len(products) :
       /\ products[i].variant_id # NULL
       /\ products' = [products EXCEPT ![i].variant_id = NULL]
  /\ op' = "legacy"
  /\ UNCHANGED <<masters, variants, stats, paths, pair, verdict, session>>

SpecL == Init /\ [][SaveProduct \/ MatchBatch \/ UnsetVariant]_vars

\* such a catalog, saved before its first run, when rows of master_products are
\* deleted under it as well, as long as the runs that followed added no variant
SpecLD ==
  Init /\ [][(op \in {"init", "save"} /\ SaveProduct) \/ MatchBatch
               \/ (Len(variants) <= Len(products) /\ UnsetVariant)
               \/ (Len(variants) <= Len(products) /\ DeleteMaster)]_vars

(***************************************************************************)
(* The text functions applied to arguments of their own: lists of tokens,  *)
(* short texts in which case and spaces vary, and product names of         *)
(* test_color_fix.py.  pair holds the call, verdict the value returned.    *)
(***************************************************************************)
MaxTokens == 3
MaxTextLen == 3

Tokens == { <<"i","p","h","o","n","e">>, <<"1","6">>, <<"p","r","o">> }

TokenLists == UNION {[1..n -> Tokens] : n \in 0..MaxTokens}

SimTexts == UNION {[1..n -> {"a", "b", "A", " "}] : n \in 0..MaxTextLen}

\* (product_name, expected_normalized_base) of test_cases
ColorTestCases ==
  { << <<"A","p","p","l","e"," ","i","P","h","o","n","e"," ","1","7"," ","2","5","6","G","B"," ","M","i","s","t"," ","B","l","u","e">>,
       <<"a","p","p","l","e"," ","i","p","h","o","n","e"," ","1","7">> >>,
    << <<"A","p","p","l","e"," ","i","P","h","o","n","e"," ","1","7"," ","2","5","6","G","B"," ","S","a","g","e"," ","G","r","e","e","n">>,
       <<"a","p","p","l","e"," ","i","p","h","o","n","e"," ","1","7">> >>,
    << <<"A","p","p","l","e"," ","i","P","h","o","n","e"," ","1","7"," ","P","r","o"," ","2","5","6","G","B"," ","S","i","l","v","e","r">>,
       <<"a","p","p","l","e"," ","i","p","h","o","n","e"," ","1","7"," ","p","r","o">> >>,
    << <<"S","m","a","r","t","p","h","o","n","e"," ","A","P","P","L","E"," ","i","P","h","o","n","e"," ","A","i","r"," ","5","1","2","G","B"," ","5","G"," ","e","-","S","I","M"," ","s","p","a","c","e"," ","b","l","a","c","k">>,
       <<"a","p","p","l","e"," ","i","p","h","o","n","e"," ","a","i","r">> >> }

TextCalls ==
  [fn : {"calculate_token_overlap"}, tokens1 : TokenLists, tokens2 : TokenLists]
    \cup [fn : {"calculate_similarity"}, text1 : SimTexts, text2 : SimTexts]
    \cup [fn : {"normalize_text_base"}, text : {c[1] : c \in ColorTestCases}]

InitText ==
  /\ EmptyCatalog
  /\ pair \in TextCalls
  /\ verdict = None

Returned(fn, value) ==
  /\ op = "init"
  /\ pair.fn = fn
  /\ verdict' = value
  /\ op' = fn
  /\ UNCHANGED <<products, masters, variants, stats, paths, pair, session>>

ApplyTokenOverlap ==
  Returned("calculate_token_overlap", calculate_token_overlap(pair.tokens1, pair.tokens2))

ApplySimilarity ==
  Returned("calculate_similarity", calculate_similarity(pair.text1, pair.text2))

ApplyNormalizeBase ==
  Returned("normalize_text_base", normalize_text_base(pair.text))

SpecText ==
  InitText /\ [][ApplyTokenOverlap \/ ApplySimilarity \/ ApplyNormalizeBase]_vars

(***************************************************************************)
(* search_products on a catalog of four listings, each saved once: two     *)
(* capacities of "iPhone 16", "Apple iPhone 16 128GB Black" and "Google    *)
(* Pixel 9 128GB Black".  The catalog searched may hold masters whose       *)
(* listings were linked before variants were assigned (the run that gives  *)
(* them their variants is the subject of SpecL).                           *)
(***************************************************************************)
SearchListings ==
  { Listing(N.iphone16_128, None), Listing(N.iphone16_256_white, None),
    Listing(N.apple_iphone16_128_black, None), Listing(N.pixel9, None) }

\* the queries: "", "iphone 16", "iPhone 16 128GB", "pixel 9 iphone 16", "16 iphone", "128GB"
Q == [ empty |-> <<>>,
       iphone16 |-> <<"i","p","h","o","n","e"," ","1","6">>,
       iphone16_128 |-> <<"i","P","h","o","n","e"," ","1","6"," ","1","2","8","G","B">>,
       mixed |-> <<"p","i","x","e","l"," ","9"," ","i","p","h","o","n","e"," ","1","6">>,
       swapped |-> <<"1","6"," ","i","p","h","o","n","e">>,
       capacity |-> <<"1","2","8","G","B">> ]

Queries == {Q[f] : f \in DOMAIN Q}

Limits == {1, 2, 3}

\* normalized_query, tokens and capacity_query of each query
QueryOf ==
  [q \in Queries |-> [ normalized |-> normalize_text_base(q),
                       tokens |-> extract_base_tokens(q),
                       capacity |-> extract_capacity(q) ]]

\* database.save_products: a listing of a store is created once
SaveListing ==
  /\ op \notin {"legacy", "search"}
  /\ \E l \in SearchListings :
       /\ \A i \in 1..Len(products) : products[i].name # l.name
       /\ products' = Append(products, NewProduct(l))
  /\ op' = "save"
  /\ UNCHANGED <<masters, variants, stats, paths, pair, verdict, session>>

\* a master of a catalog matched before variants were assigned: its listings
\* have no variant and it has no variant row
ForgetVariants ==
  /\ op # "search"
  /\ \E k \in 1..Len(masters) :
       /\ \E j \in 1..Len(variants) : variants[j].master_product_id = masters[k].id
       /\ variants' = SelectSeq(variants, LAMBDA v : v.master_product_id # masters[k].id)
       /\ products' = [i \in 1..Len(products) |->
                         IF products[i].master_product_id = masters[k].id
                         THEN [products[i] EXCEPT !.variant_id = NULL]
                         ELSE products[i]]
  /\ op' = "legacy"
  /\ UNCHANGED <<masters, stats, paths, pair, verdict, session>>

Search ==
  /\ op # "search"
  /\ \E q \in Queries : \E limit \in Limits :
       /\ pair' = [query |-> q, limit |-> limit]
       /\ verdict' = search_products(Catalog, QueryOf[q], limit)
  /\ op' = "search"
  /\ UNCHANGED <<products, masters, variants, stats, paths, session>>

\* the empty catalog before any search: no query, no results
InitS ==
  /\ EmptyCatalog
  /\ pair = [query |-> <<>>, limit |-> 1]
  /\ verdict = <<>>

SpecS ==
  InitS
  /\ [][SaveListing \/ (op \notin {"legacy", "search"} /\ MatchBatch) \/ ForgetVariants \/ Search]_vars

(***************************************************************************)
(* Properties of the matching engine                                       *)
(***************************************************************************)
Linked(p) == p.master_product_id # NULL /\ p.variant_id # NULL

\* the variant row with an id
GetVariant(table, id) == table[CHOOSE i \in 1..Len(table) : table[i].id = id]

\* C1: a run of match_products that directly follows another run, with no
\* listing saved in between, changes no master, no variant and no listing's
\* master or variant assignment.
C1_SecondRunNoMutation ==
  [][(op = "match" /\ op' = "match")
       => (masters' = masters /\ variants' = variants /\ products' = products)]_vars

\* a second run has happened: the last run selected nothing although the
\* catalog holds listings, masters and variants
C1_Witness ==
  /\ op = "match"
  /\ stats.total_products = 0
  /\ Len(products) >= 2 /\ Len(masters) >= 2 /\ Len(variants) >= 2
  /\ \A i \in 1..Len(products) : Linked(products[i])

WellLinked(p) ==
  /\ p.master_product_id \in Ids(masters)
  /\ p.variant_id \in Ids(variants)
  /\ GetVariant(variants, p.variant_id).master_product_id = p.master_product_id
  /\ (~Truthy(CapacityOf[p.name])
        => GetVariant(variants, p.variant_id).capacity = UNKNOWN)

CreatedByLastRun == {i \in DOMAIN paths : paths[i] = "new_master_created"}

\* C4 as claimed: a listing the last run matched into a newly created master
\* keeps its master id in the next run of match_products and is counted in
\* already_matched by that run.
C4_CountedAlreadyMatched ==
  [][(op' = "match")
       => \A i \in CreatedByLastRun :
            /\ products'[i].master_product_id = products[i].master_product_id
            /\ i \in DOMAIN paths' /\ paths'[i] = "already_matched"]_vars

\* C4: a listing the last run matched into a newly created master keeps its
\* master id in the next run of match_products; that run does not select it,
\* so it increments none of its counters for it (already_matched included)
\* and does not score it against the masters.
C4_KeptWithoutProcessing ==
  [][(op' = "match")
       => \A i \in CreatedByLastRun :
            /\ products'[i].master_product_id = products[i].master_product_id
            /\ i \notin DOMAIN paths']_vars

\* a run has completed after a run that created masters: it processed only
\* the listing saved in between, and the earlier listings are still linked
C4_Witness ==
  /\ op = "match"
  /\ Len(products) = 3
  /\ DOMAIN paths = {3}
  /\ stats.total_products = 1
  /\ Linked(products[1]) /\ Linked(products[2])
  /\ products[1].master_product_id # products[2].master_product_id

\* C5 as claimed: after match_products has completed, no listing references
\* a master that does not exist, whatever its variant id was before the run.
C5_NoDanglingAfterRun ==
  op = "match" => \A i \in 1..Len(products) :
                    products[i].master_product_id # NULL
                      => products[i].master_product_id \in Ids(masters)

\* the catalog of the same listings, in the same order, before any matching
Fresh(listings) ==
  [products |-> [i \in 1..Len(listings) |->
                   [listings[i] EXCEPT !.master_product_id = NULL, !.variant_id = NULL]],
   masters |-> <<>>, variants |-> <<>>, stats |-> NoStats, paths |-> <<>>]

\* C6: after rematch_all_products there are as many masters as one run of
\* match_products creates from an empty catalog holding the same listings in
\* the same order.
C6_RebuildCountsAsFresh ==
  op = "rebuild" => Len(masters) = Len(match_products(Fresh(products)).masters)

\* a rebuild of a catalog of three listings that leaves two masters
C6_Witness ==
  /\ op = "rebuild"
  /\ Len(products) = 3
  /\ Len(masters) = 2
  /\ stats.matched_to_existing = 1

(***************************************************************************)
(* Properties of is_match                                                  *)
(***************************************************************************)
\* both listings carry a brand field
ExplicitBrands == Truthy(pair.product1.brand) /\ Truthy(pair.product2.brand)

\* C7 as claimed: when the brand fields of the two listings are both
\* non-empty and differ, is_match returns false for every threshold.
C7_DifferentBrandsVeto ==
  (op = "is_match" /\ ExplicitBrands /\ pair.product1.brand # pair.product2.brand)
    => verdict = FALSE

\* C7: when the brand fields of the two listings are both non-empty and
\* differ when compared without regard to letter case, is_match returns false
\* for every threshold.
C7_DifferentBrandsIgnoringCaseVeto ==
  (op = "is_match" /\ ExplicitBrands
   /\ lower(pair.product1.brand) # lower(pair.product2.brand))
    => verdict = FALSE

\* the same name under two brands, at the threshold every score reaches
C7_Witness ==
  /\ op = "is_match"
  /\ pair.product1.name = N.apple_iphone16_128_black
  /\ pair.product2.name = N.apple_iphone16_128_black
  /\ pair.product1.brand = B.Apple
  /\ pair.product2.brand = B.Samsung
  /\ pair.threshold = 0
  /\ verdict = FALSE

NoBrandConflict == ~BrandsDiffer(BrandOf(pair.product1), BrandOf(pair.product2))

Model1 == ModelOf[pair.product1.name, BrandOf(pair.product1)]
Model2 == ModelOf[pair.product2.name, BrandOf(pair.product2)]

\* C8 as claimed: with no brand conflict and two extracted models that are
\* both present and differ, is_match at the default threshold returns false.
C8_DifferentModelsNoMatch ==
  (op = "is_match" /\ pair.threshold = DEFAULT_THRESHOLD /\ NoBrandConflict
   /\ Truthy(Model1) /\ Truthy(Model2) /\ Model1 # Model2)
    => verdict = FALSE

\* C9: with no brand conflict, the same model, equal base-normalized names
\* and non-empty base tokens, is_match at the default threshold returns true,
\* also when the two capacities are present and differ.
C9_VariantsOfOneModelMatch ==
  (op = "is_match" /\ pair.threshold = DEFAULT_THRESHOLD /\ NoBrandConflict
   /\ Model1 = Model2
   /\ NormalizedBaseOf[pair.product1.name] = NormalizedBaseOf[pair.product2.name]
   /\ BaseTokensOf[pair.product1.name] # <<>>
   /\ BaseTokensOf[pair.product2.name] # <<>>)
    => verdict = TRUE

\* "Apple iPhone 16 128GB Black" against "Apple iPhone 16 256GB White"
C9_Witness ==
  /\ op = "is_match"
  /\ pair.threshold = DEFAULT_THRESHOLD
  /\ pair.product1 = Listing(N.apple_iphone16_128_black, None)
  /\ pair.product2 = Listing(N.apple_iphone16_256_white, None)
  /\ Truthy(Model1) /\ Model1 = Model2
  /\ CapacityOf[pair.product1.name] # CapacityOf[pair.product2.name]
  /\ NormalizedBaseOf[pair.product1.name] = NormalizedBaseOf[pair.product2.name]
  /\ verdict = TRUE

(***************************************************************************)
(* Properties of find_matching_master_product                              *)
(***************************************************************************)
\* the masters the scan scores for a product
Compatible(table, product) ==
  {i \in 1..Len(table) : ~BrandSkipped(product, table[i])}

\* master number i is the first of the best compatible masters, and reaches 0.75
FirstBest(table, product, i) ==
  /\ i \in Compatible(table, product)
  /\ FracGeq(MasterScore(product, table[i]), MASTER_THRESHOLD)
  /\ \A j \in Compatible(table, product) :
       /\ ~FracGt(MasterScore(product, table[j]), MasterScore(product, table[i]))
       /\ FracEq(MasterScore(product, table[j]), MasterScore(product, table[i])) => i <= j

\* no compatible master reaches 0.75
NoneReaches(table, product) ==
  \A j \in Compatible(table, product) :
    ~FracGeq(MasterScore(product, table[j]), MASTER_THRESHOLD)

Characterised(table, product, found) ==
  /\ found # 0 => FirstBest(table, product, found)
  /\ found = 0 <=> NoneReaches(table, product)

\* C10: find_matching_master_product returns a master only if it scores at
\* least 0.75 and no brand-compatible master scores higher, the first in scan
\* order of those tied at the highest score; it returns None exactly when no
\* brand-compatible master scores at least 0.75.
C10_BestMasterOrNone ==
  \A l \in CatalogListings :
    Characterised(masters, NewProduct(l),
                  find_matching_master_product(masters, NewProduct(l)))

\* the third listing was matched to the first of two masters that tie for it
C10_Witness ==
  /\ op = "match"
  /\ Len(masters) = 2 /\ Len(products) = 3
  /\ 3 \in DOMAIN paths /\ paths[3] = "matched_to_existing"
  /\ products[3].master_product_id = masters[1].id
  /\ Compatible(masters, products[3]) = {1, 2}
  /\ FracEq(MasterScore(products[3], masters[1]), MasterScore(products[3], masters[2]))
  /\ find_matching_master_product(masters, products[3]) = 1

(***************************************************************************)
(* Properties of the links match_products makes                            *)
(***************************************************************************)
\* the master row a linked listing references
MasterOf(p) == masters[CHOOSE k \in 1..Len(masters) : masters[k].id = p.master_product_id]

\* the listings the last run linked to a master that existed already
MatchedByLastRun == {i \in DOMAIN paths : paths[i] = "matched_to_existing"}

\* C11 as claimed: a listing that find_matching_master_product links to an
\* existing master never has a brand (its brand field or, when that is
\* empty, the brand extracted from its name) that is known and differs,
\* ignoring case, from the known brand of that master.
C11_NoLinkAcrossBrands ==
  \A i \in MatchedByLastRun :
    ~BrandsDiffer(MasterOf(products[i]).brand, BrandOf(products[i]))

\* the master of table with the id of row has the attributes of row
SameAttributes(table, row) ==
  \A j \in 1..Len(table) : table[j].id = row.id => table[j] = row

\* C12: a run of match_products changes no attribute (canonical name,
\* normalized name, search tokens, brand, model, category) of a master that
\* existed before the run, also when it links further listings to it.
C12_MastersNeverRewritten ==
  [][(op' = "match")
       => \A k \in 1..Len(masters) : SameAttributes(masters', masters[k])]_vars

\* a run has linked a listing to a master created by an earlier run
C12_Witness ==
  /\ op = "match"
  /\ stats.total_products = 1
  /\ MatchedByLastRun # {}
  /\ \E i \in MatchedByLastRun : products[i].name # products[1].name
                                  /\ products[i].master_product_id = products[1].master_product_id

\* C13: no step other than rematch_all_products removes a master or a
\* variant: over a run of match_products the masters and the variants that
\* existed before are all still there.
C13_OnlyRebuildRemoves ==
  [][(op' # "rebuild")
       => (Ids(masters) \subseteq Ids(masters') /\ Ids(variants) \subseteq Ids(variants'))]_vars

\* a run has added a master and a variant to those of an earlier run
C13_Witness ==
  /\ op = "match"
  /\ stats.total_products = 1 /\ stats.new_master_created = 1
  /\ Len(masters) >= 2 /\ Len(variants) >= 2

\* the n first members of a set of listing numbers
Smallest(S, n) == {i \in S : Cardinality({j \in S : j < i}) < n}

\* the listings of the batches a session committed before it ended
Committed(sess) ==
  Smallest(Selected(sess.start.products),
           (sess.count \div sess.batch_size) * sess.batch_size)

SameTables(s) ==
  /\ products = s.products
  /\ masters = s.masters
  /\ variants = s.variants

\* C14: when a run of match_products dies after k batch commits, the tables hold
\* exactly what processing the listings of those k batches produces: each of
\* them has its master and its variant, nothing of the batch under way is
\* kept, and every listing the run selected outside those batches is as it was,
\* still without master or variant, so that a later run selects it.
C14_CrashKeepsCommittedBatches ==
  (op = "crash") =>
     /\ SameTables(MatchSelected(session.start, Committed(session)))
     /\ \A i \in Committed(session) : Linked(products[i])
     /\ \A i \in Selected(session.start.products) \ Committed(session) :
           products[i] = session.start.products[i] /\ i \in Selected(products)

\* a run with batches of two died after its third listing: one batch committed,
\* the third listing processed and lost
C14_Witness ==
  /\ op = "crash"
  /\ session.batch_size = 2
  /\ session.count = 3
  /\ Cardinality(Committed(session)) = 2
  /\ \E i \in DOMAIN session.work.products :
        Linked(session.work.products[i]) /\ ~Linked(products[i])

\* the listings linked to a master that exists and to no variant
MissingVariant ==
  {i \in 1..Len(products) :
     products[i].master_product_id \in Ids(masters) /\ products[i].variant_id = NULL}

\* C15: a listing that enters match_products linked to a master that exists but
\* to no variant is counted as already_matched (the master is neither searched
\* nor created for it), keeps its master id, and gets a variant of that master.
C15_LinkedListingKeepsMaster ==
  [][(op' = "match") =>
       /\ stats'.already_matched = Cardinality(MissingVariant)
       /\ \A i \in MissingVariant :
            /\ paths'[i] = "already_matched"
            /\ products'[i].master_product_id = products[i].master_product_id
            /\ products'[i].variant_id \in Ids(variants')
            /\ GetVariant(variants', products'[i].variant_id).master_product_id
                  = products[i].master_product_id]_vars

\* a run has completed the variant of a listing that another listing had since
\* joined under the same master
C15_Witness ==
  /\ op = "match"
  /\ stats.already_matched >= 1
  /\ stats.matched_to_existing + stats.new_master_created >= 1
  /\ \E i \in DOMAIN paths : paths[i] = "already_matched" /\ Linked(products[i])

\* agreement of two extracted values: 0 only when both are present and differ
Agreement(x1, x2) == IF x1 # None /\ x2 # None /\ x1 # x2 THEN 0 ELSE 1

\* 0.4 * sim + 0.4 * overlap + 0.1 * cap + 0.1 * mod >= threshold / 100
WeightedAtLeast(sim, overlap, cap, mod, threshold) ==
  40 * sim[1] * overlap[2] + 40 * overlap[1] * sim[2]
    + 10 * (cap + mod) * sim[2] * overlap[2]
  >= threshold * sim[2] * overlap[2]

ClaimedVerdict(p1, p2, threshold) ==
  WeightedAtLeast(calculate_similarity_base(p1.name, p2.name),
                  calculate_token_overlap(extract_base_tokens(p1.name),
                                          extract_base_tokens(p2.name)),
                  Agreement(CapacityOf[p1.name], CapacityOf[p2.name]),
                  Agreement(ModelOf[p1.name, BrandOf(p1)], ModelOf[p2.name, BrandOf(p2)]),
                  threshold)

C16_WitnessAbsent ==
  /\ op = "is_match"
  /\ pair.threshold = DEFAULT_THRESHOLD
  /\ verdict = TRUE
  /\ CapacityOf[pair.product1.name] = None
  /\ CapacityOf[pair.product2.name] # None

C16_WitnessRefused ==
  /\ op = "is_match"
  /\ pair.threshold = DEFAULT_THRESHOLD
  /\ ~BrandsDiffer(BrandOf(pair.product1), BrandOf(pair.product2))
  /\ verdict = FALSE

\* C17: token_overlap is |A n B| / |A u B| for the token sets A, B of two
\* non-empty lists and 0 when either list is empty; it does not depend on the
\* order or the multiplicity of the tokens, is symmetric, lies in [0, 1], and is
\* 1 exactly when both lists are non-empty and have the same token set.
C17_TokenOverlapIsJaccard ==
  (op = "calculate_token_overlap") =>
    LET A == ToSet(pair.tokens1)
        C == ToSet(pair.tokens2)
    IN /\ (A # {} /\ C # {})
            => verdict[1] * Cardinality(A \cup C) = Cardinality(A \cap C) * verdict[2]
       /\ (A = {} \/ C = {}) => verdict[1] = 0
       /\ \A t \in TokenLists :
            ToSet(t) = A => calculate_token_overlap(t, pair.tokens2) = verdict
       /\ calculate_token_overlap(pair.tokens2, pair.tokens1) = verdict
       /\ verdict[2] > 0 /\ 0 <= verdict[1] /\ verdict[1] <= verdict[2]
       /\ (verdict[1] = verdict[2]) <=> (A # {} /\ C # {} /\ A = C)

\* two lists of different lengths and orders with the same tokens overlap fully
C17_Witness ==
  /\ op = "calculate_token_overlap"
  /\ Len(pair.tokens1) = 3
  /\ Len(pair.tokens2) = 2
  /\ pair.tokens1[1] = pair.tokens1[3]
  /\ pair.tokens1[1] = pair.tokens2[2]
  /\ verdict = <<2, 2>>

SharedChars(a, b) == ToSet(a) \cap ToSet(b)

\* C18 as claimed: string_similarity gives the same value for (a, b) and
\* (b, a), is 1.0 exactly when normalize(a) = normalize(b), and is 0.0 when the
\* normalized strings share no character.
C18_SimilaritySymmetric ==
  (op = "calculate_similarity") =>
    /\ calculate_similarity(pair.text2, pair.text1) = verdict
    /\ (verdict[1] = verdict[2])
         <=> (normalize_text(pair.text1) = normalize_text(pair.text2))
    /\ SharedChars(normalize_text(pair.text1), normalize_text(pair.text2)) = {}
         => verdict[1] = 0

\* the two other parts of C18, which hold
C18_OneIffEqualZeroIfDisjoint ==
  (op = "calculate_similarity") =>
    /\ (verdict[1] = verdict[2])
         <=> (normalize_text(pair.text1) = normalize_text(pair.text2))
    /\ (SharedChars(normalize_text(pair.text1), normalize_text(pair.text2)) = {}
           /\ normalize_text(pair.text1) \o normalize_text(pair.text2) # <<>>)
         => verdict[1] = 0

\* digits followed by gb, tb or mb, and nothing else
IsCapacityToken(t) ==
  \E k \in 1..(Len(t) - 2) :
    /\ \A i \in 1..k : IsDigit(t[i])
    /\ SubSeq(t, k + 1, Len(t)) \in {UNIT.gb, UNIT.tb, UNIT.mb}

\* no token of a text is a capacity or a word of COLOR_WORDS
NoCapacityNoColor(text) ==
  \A t \in ToSet(split(text)) : ~IsCapacityToken(t) /\ ~InList(t, COLOR_WORDS)

\* C19 as claimed: normalize_text_base reduces the names of test_color_fix.py,
\* with their two-word colours and store decorations, to the brand and model
\* tokens the test expects ("Apple iPhone 17 256GB Mist Blue" gives
\* "apple iphone 17"), and its result holds no capacity token and no colour word.
C19_ReducedToBrandAndModel ==
  (op = "normalize_text_base") =>
    /\ \A c \in ColorTestCases : pair.text = c[1] => verdict = c[2]
    /\ NoCapacityNoColor(verdict)

\* the part of C19 that holds: no capacity token, no word of COLOR_WORDS
C19_NoCapacityNoColorWord ==
  (op = "normalize_text_base") => NoCapacityNoColor(verdict)

\* the attributes of a master row follow from its canonical name
DerivedFromName(m) ==
  /\ m.normalized_name = normalize_text_base(m.canonical_name)
  /\ m.search_tokens = join(extract_base_tokens(m.canonical_name))

\* the master row was made from the listing: its brand is the brand field or,
\* when the field is empty, the brand found in the name; an empty name gives an
\* empty canonical name
MadeFrom(m, p) ==
  /\ m.brand = (IF p.brand # None /\ p.brand # <<>> THEN p.brand ELSE extract_brand(p.name))
  /\ (p.name = <<>>) => (m.canonical_name = <<>>)

\* C20: create_master_product succeeds for every listing, the one with the
\* empty name included: after a run every listing is linked (no listing stops
\* the loop), every master has normalized_name = normalize_text_base of its
\* canonical name and search_tokens = the base tokens of its canonical name,
\* and the master created for a listing has the listing's brand field or, when
\* that is empty, the brand extracted from its name.
C20_CreatedMasterWellFormed ==
  (op \in {"match", "rebuild"}) =>
    /\ \A i \in 1..Len(products) : Linked(products[i])
    /\ \A k \in 1..Len(masters) : DerivedFromName(masters[k])
    /\ \A i \in DOMAIN paths :
         paths[i] = "new_master_created" => MadeFrom(MasterOf(products[i]), products[i])

\* one run created a master with an empty canonical name for the listing with
\* the empty name, and a master with a brand taken from the name
C20_Witness ==
  /\ op = "match"
  /\ \E i \in DOMAIN paths :
       /\ paths[i] = "new_master_created"
       /\ products[i].name = <<>>
       /\ MasterOf(products[i]).canonical_name = <<>>
  /\ \E j \in DOMAIN paths :
       /\ paths[j] = "new_master_created"
       /\ products[j].brand = None
       /\ MasterOf(products[j]).brand # None

\* C21: a second rematch_all_products, run right after a first one with no
\* listing saved in between, leaves the masters, the variants and the links of
\* the listings as the first one left them.
C21_RebuildIdempotent ==
  (op = "rebuild") => SameTables(rematch_all_products(Catalog))

\* a rebuild has left two masters, one of them with two variants
C21_Witness ==
  /\ op = "rebuild"
  /\ Len(masters) = 2
  /\ \E i \in 1..Len(variants) : \E j \in 1..Len(variants) :
        i # j /\ variants[i].master_product_id = variants[j].master_product_id

\* the step ends in the catalog s
EndsIn(s) ==
  /\ products' = s.products
  /\ masters' = s.masters
  /\ variants' = s.variants
  /\ stats' = s.stats
  /\ paths' = s.paths

\* C22: a run of match_products that commits after every listing, or after
\* every second listing, ends with the masters, variants, links and statistics
\* of the run that commits once at the end, from the same catalog.
C22_BatchSizeIrrelevant ==
  [][(op' = "match") => EndsIn(match_products(session.start))]_vars

\* a run over three listings, hence with a commit before its end, linked a
\* listing to a master created earlier in the same run
C22_Witness ==
  /\ op = "match"
  /\ stats.total_products = 3
  /\ \E i \in DOMAIN paths : \E j \in DOMAIN paths :
        /\ i < j
        /\ paths[i] = "new_master_created"
        /\ paths[j] = "matched_to_existing"
        /\ products[i].master_product_id = products[j].master_product_id

(***************************************************************************)
(* Properties of search_products                                           *)
(***************************************************************************)
\* what the substring search returns for the query of the last search
DirectHits == Take(SubstringMasters(masters, QueryOf[pair.query].normalized), pair.limit)

\* the masters the results of the last search are built from
MastersFound == FindMasters(masters, QueryOf[pair.query], pair.limit)

OverlapWithQuery(m) == Overlap(QueryOf[pair.query].tokens, m)

\* the token search is used only when the substring search returned nothing,
\* and returns masters of overlap >= 0.3, best first
FallbackAsClaimed(direct, found) ==
  /\ direct # <<>> => found = direct
  /\ direct = <<>> =>
       /\ \A i \in 1..Len(found) : FracGeq(OverlapWithQuery(found[i]), <<3, 10>>)
       /\ \A i \in 1..Len(found) : \A j \in 1..Len(found) :
            i < j => FracGeq(OverlapWithQuery(found[i]), OverlapWithQuery(found[j]))

\* the masters whose normalized_name contains the normalized query (a query
\* that normalizes to the empty text is not searched for as a substring)
Containing ==
  {k \in 1..Len(masters) :
     /\ Truthy(QueryOf[pair.query].normalized)
     /\ Contains(masters[k].normalized_name, QueryOf[pair.query].normalized)}

\* C23 as claimed: the token search is used only when the substring search
\* returns no master, it returns only masters of overlap >= 0.3 in descending
\* order of overlap, and every master whose normalized_name contains the
\* normalized query is among the masters the substring search returns.
C23_ContainingAlwaysFound ==
  (op = "search") =>
    /\ FallbackAsClaimed(DirectHits, MastersFound)
    /\ \A k \in Containing : \E i \in 1..Len(DirectHits) : DirectHits[i] = masters[k]

\* C23 amended: as claimed, except that the substring search returns the first
\* limit masters that contain the query: a master that contains it is found
\* unless limit masters before it contain it too.
C23_ContainingFoundUpToLimit ==
  (op = "search") =>
    /\ FallbackAsClaimed(DirectHits, MastersFound)
    /\ \A k \in Containing :
         \/ \E i \in 1..Len(DirectHits) : DirectHits[i] = masters[k]
         \/ Cardinality({j \in Containing : j < k}) >= pair.limit

\* the token search was used and its sort changed the order of the masters
C23_Witness ==
  /\ op = "search"
  /\ DirectHits = <<>>
  /\ Len(MastersFound) >= 2
  /\ \E i \in 1..Len(masters) : \E j \in 1..Len(masters) :
        /\ i < j
        /\ FracGt(OverlapWithQuery(masters[j]), OverlapWithQuery(masters[i]))
        /\ FracGeq(OverlapWithQuery(masters[i]), <<3, 10>>)
        /\ MastersFound[1] = masters[j]

\* two masters contain the query and the limit is 1
C23_WitnessLimit ==
  /\ op = "search"
  /\ pair.query = Q.iphone16
  /\ pair.limit = 1
  /\ Cardinality(Containing) = 2
  /\ Len(verdict) = 1

\* C30: search_products(query, limit) returns at most limit results in every
\* state of the catalog, the states included where a master has linked
\* listings but no variant that matches the query.
C30_AtMostLimit == (op = "search") => Len(verdict) <= pair.limit

(***************************************************************************)
(* The statistics of a run                                                 *)
(***************************************************************************)
\* the master rows in the session when the loop of a run over the catalog
\* reaches listing i
MastersReaching(i) ==
  MatchSelected(Catalog, {j \in Selected(products) : j < i}).masters

\* listing i has a master id of which the session holds no row when the loop
\* reaches it: its link is reset
LinkReset(i) ==
  /\ products[i].master_product_id # NULL
  /\ GetMaster(MastersReaching(i), products[i].master_product_id) = NULL

\* C24: the statistics of a run are consistent with what it did: every
\* selected listing is counted once, total = matched_to_existing +
\* new_master_created + already_matched, new_master_created is the number of
\* masters added, and a listing whose dangling link was reset is counted as
\* matched_to_existing or new_master_created, never as already_matched.
C24_StatsConsistent ==
  [][(op' = "match") =>
       /\ DOMAIN paths' = Selected(products)
       /\ stats'.total_products = Cardinality(Selected(products))
       /\ \A p \in {"matched_to_existing", "new_master_created", "already_matched"} :
            stats'[p] = Cardinality({i \in DOMAIN paths' : paths'[i] = p})
       /\ stats'.total_products = stats'.matched_to_existing + stats'.new_master_created
                                    + stats'.already_matched
       /\ stats'.new_master_created = Len(masters') - Len(masters)
       /\ \A i \in Selected(products) :
            LinkReset(i) => paths'[i] \in {"matched_to_existing", "new_master_created"}]_vars

\* a run over listings that all had a master id counted one of them in each
\* way: the links of two were reset
C24_Witness ==
  /\ op = "match"
  /\ stats.already_matched = 1
  /\ stats.matched_to_existing = 1
  /\ stats.new_master_created = 1

\* a listing whose master was deleted is counted as already matched: the id of
\* its master was given to a master created earlier in the run
C24_WitnessReissued ==
  /\ op = "match"
  /\ stats.already_matched = 1
  /\ stats.new_master_created = 1
  /\ stats.total_products = 2
  /\ Len(masters) = 1
  /\ \E i \in DOMAIN paths : \E j \in DOMAIN paths :
        /\ i < j
        /\ paths[i] = "new_master_created"
        /\ paths[j] = "already_matched"
        /\ products[j].master_product_id = products[i].master_product_id

(***************************************************************************)
(* The committed tables, runs cut short included                           *)
(***************************************************************************)
\* C25: in every committed state reached from the empty catalog by runs of
\* match_products and rematch_all_products, runs cut short between commits
\* included, a listing's master, when set, exists; its variant, when set,
\* exists and belongs to the listing's master; every variant's master exists.
C25_ReferencesConsistent ==
  /\ \A i \in 1..Len(products) :
       /\ products[i].master_product_id # NULL
            => products[i].master_product_id \in Ids(masters)
       /\ products[i].variant_id # NULL
            => /\ products[i].variant_id \in Ids(variants)
               /\ GetVariant(variants, products[i].variant_id).master_product_id
                    = products[i].master_product_id
  /\ \A j \in 1..Len(variants) : variants[j].master_product_id \in Ids(masters)

\* a rebuild died after its first batch: one listing is linked again, to a
\* master and a variant created by the rebuild, another is still without
C25_Witness ==
  /\ op = "crash"
  /\ session.start.masters = <<>>
  /\ Len(session.start.products) >= 2
  /\ session.count >= 1
  /\ \E i \in 1..Len(products) : Linked(products[i])
  /\ \E i \in 1..Len(products) : products[i].master_product_id = NULL
  /\ stats.total_products >= 2

\* C29: in every committed state reached from the empty catalog by runs of
\* match_products and rematch_all_products there is no orphan: every master
\* and every variant has a listing linked to it, and there are no more
\* masters than listings.
C29_NoOrphans ==
  /\ \A k \in 1..Len(masters) :
       \E i \in 1..Len(products) : products[i].master_product_id = masters[k].id
  /\ \A j \in 1..Len(variants) :
       \E i \in 1..Len(products) : products[i].variant_id = variants[j].id
  /\ Len(masters) <= Len(products)

\* the committed tables in the middle of a run: the first batch is committed,
\* its master and variant have their listing, the next listing is not
\* processed yet
C29_Witness ==
  /\ session.active
  /\ op = "step"
  /\ session.todo # {}
  /\ Len(masters) > Len(session.start.masters)
  /\ Len(variants) > Len(session.start.variants)
  /\ Len(masters) < Len(products)

C27_IncrementalAsOneShot ==
  (op = "match") => SameTables(match_products(Fresh(products)))

\* the last run processed a second group only: it linked one of its listings
\* to a master of the first group and created a master for another
C27_Witness ==
  /\ op = "match"
  /\ Len(products) = 3
  /\ stats.total_products = 2
  /\ stats.matched_to_existing = 1
  /\ stats.new_master_created = 1

(***************************************************************************)
(* Listings with the same name                                             *)
(***************************************************************************)
\* C28: two listings with the same name and the same brand field, processed
\* by the same run or by successive runs of match_products, are linked to the
\* same master, whatever the name: the empty name and names made of stop
\* words, colour words or capacity tokens only included.
C28_SameNameSameMaster ==
  \A i \in 1..Len(products) : \A j \in 1..Len(products) :
    ( /\ Linked(products[i]) /\ Linked(products[j])
      /\ products[i].name = products[j].name
      /\ products[i].brand = products[j].brand )
    => products[i].master_product_id = products[j].master_product_id
====
